---- MODULE Spec2Model ----
(***************************************************************************)
(* Model of robot.libdocpkg.model: LibraryDoc, KeywordDoc, TypedDictDoc    *)
(* and EnumDoc.  Four specifications share the module:                     *)
(*   Spec      the library aggregate (inits, keywords, data_types, docs)   *)
(*   SpecKw    Spec without assignments to data_types                      *)
(*   SpecToc   LibraryDoc.doc / _add_toc / _create_toc on bounded texts    *)
(*   SpecRT    the constructors and to_dictionary of the type descriptors  *)
(***************************************************************************)
EXTENDS Integers, Sequences, FiniteSets, TLC

VARIABLES
    kw_doc,        \* KeywordDoc.doc of every keyword object
    kw_shortdoc,   \* KeywordDoc._shortdoc of every keyword object
    kw_parent,     \* KeywordDoc.parent of every keyword object
    inits,         \* LibraryDoc.inits (list of keyword objects)
    keywords,      \* LibraryDoc.keywords (list of keyword objects)
    data_types,    \* LibraryDoc._data_types, an insertion-ordered dict
    lib_doc,       \* LibraryDoc._doc
    doc_format,    \* LibraryDoc.doc_format
    nconv,         \* number of convert_docs_to_html calls made so far
    first_read,    \* history: what the first read of kw.shortdoc returned
    last,          \* history: the last call, its argument and its outcome
    steps,         \* number of calls made on the library so far
    toc,           \* SpecToc: inputs and result of LibraryDoc.doc
    rt             \* SpecRT: a descriptor, its dictionary and its rebuilds

vars == <<kw_doc, kw_shortdoc, kw_parent, inits, keywords, data_types,
          lib_doc, doc_format, nconv, first_read, last, steps, toc, rt>>

libvars == <<kw_doc, kw_shortdoc, kw_parent, inits, keywords, data_types,
             lib_doc, doc_format, nconv, first_read, last, steps>>

----------------------------------------------------------------------------
(* Bounds *)

MaxListLen == 2     \* longest list assigned to inits, keywords, data_types
MaxConvert == 2     \* convert_docs_to_html calls per behaviour
MaxSteps == 3       \* calls made on the library per behaviour
MaxLines == 3       \* lines of a raw library doc in SpecToc

----------------------------------------------------------------------------
(* Generic helpers on sequences *)

RECURSIVE SeqsUpTo(_, _)
SeqsUpTo(S, n) ==
    IF n = 0 THEN {<<>>}
    ELSE LET r == SeqsUpTo(S, n - 1)
         IN  r \cup {Append(s, x) : s \in {q \in r : Len(q) = n - 1}, x \in S}

\* the sequences of up to n elements of S, no element twice
RECURSIVE ListsUpTo(_, _)
ListsUpTo(S, n) ==
    IF n = 0 THEN {<<>>}
    ELSE LET r == ListsUpTo(S, n - 1)
         IN  r \cup UNION {{Append(s, x) : x \in S \ {s[i] : i \in 1..Len(s)}} :
                              s \in {q \in r : Len(q) = n - 1}}

Count(s, x) == Cardinality({i \in 1..Len(s) : s[i] = x})

RECURSIVE Concat(_)
Concat(ss) == IF ss = <<>> THEN <<>> ELSE Head(ss) \o Concat(Tail(ss))

----------------------------------------------------------------------------
(* Python values *)

None == [kind |-> "None"]

\* a documentation text: the text as written and the formats of the
\* formatters whose html() has been applied to it, oldest first
Doc(t) == [text |-> t, conv |-> <<>>]

DocTexts == {"", "a", "b"}

Truthy(d) == d.text # ""

----------------------------------------------------------------------------
(* Native types met in keyword arguments and in data_types assignments *)

Unicode(v) == IF v = 1 THEN "1" ELSE IF v = 2 THEN "2" ELSE "3"

EnumColor == [kind |-> "EnumClass", name |-> "Color", doc |-> Doc("a"),
              members |-> <<[name |-> "RED", value |-> 1],
                            [name |-> "BLUE", value |-> 2]>>]

\* another enumeration class with the same __name__ and no docstring
EnumColor2 == [kind |-> "EnumClass", name |-> "Color", doc |-> None,
               members |-> <<[name |-> "GREEN", value |-> 3]>>]

PlainInt == [kind |-> "PlainClass", name |-> "int"]

\* a class whose metaclass is not type and that is neither an Enum nor a
\* TypedDict (for instance a subclass of abc.ABC)
AbcClass == [kind |-> "MetaClass", name |-> "Abc"]

\* a type given as a string
StrType == [kind |-> "str", name |-> "str"]

TypedDictRec == [kind |-> "TypedDictClass", name |-> "Rec", doc |-> Doc("b"),
                 annotations |-> <<[key |-> "x", value |-> PlainInt],
                                   [key |-> "y", value |-> StrType]>>,
                 required_keys |-> <<"x">>, optional_keys |-> <<"y">>]

isclass(t) == t.kind \in {"EnumClass", "TypedDictClass", "PlainClass", "MetaClass"}

\* type(t) is type
type_is_type(t) == t.kind = "PlainClass"

unic(t) == t.name

\* type_info.__doc__ if type_info.__doc__ else ''
DocOrEmpty(d) == IF "text" \in DOMAIN d /\ d.text # "" THEN d ELSE Doc("")

----------------------------------------------------------------------------
(* Insertion-ordered dict: a sequence of [key, val] with distinct keys *)

Keys(d) == {d[i].key : i \in 1..Len(d)}

DictGet(d, k) == d[CHOOSE i \in 1..Len(d) : d[i].key = k].val

\* d[k] = v: replaces the value in place, or appends a new key
DictSet(d, k, v) ==
    IF k \in Keys(d)
    THEN [i \in 1..Len(d) |-> IF d[i].key = k THEN [key |-> k, val |-> v] ELSE d[i]]
    ELSE Append(d, [key |-> k, val |-> v])

\* dict(pairs)
RECURSIVE DictOf(_)
DictOf(pairs) ==
    IF pairs = <<>> THEN <<>>
    ELSE LET n == Len(pairs)
         IN  DictSet(DictOf(SubSeq(pairs, 1, n - 1)), pairs[n].key, pairs[n].val)

----------------------------------------------------------------------------
(* Type descriptors *)

KeyError == [kind |-> "raise", exc |-> "KeyError"]

Raised(v) == v.kind = "raise"

\* the keyword-only arguments of a constructor call that passes none
NoKwargs == [name |-> "", super |-> "", doc |-> Doc(""), members |-> <<>>,
             items |-> <<>>, required_keys |-> <<>>, optional_keys |-> <<>>]

EnumMembers(type_info) ==
    [i \in 1..Len(type_info.members) |->
        [name |-> type_info.members[i].name,
         value |-> Unicode(type_info.members[i].value)]]

\* EnumDoc.__init__(type_info, name=, super=, doc=, members=)
EnumDoc(type_info, kw) ==
    LET self == [kind |-> "EnumDoc", name |-> kw.name, super |-> kw.super,
                 doc |-> kw.doc, members |-> kw.members]
    IN  IF type_info.kind = "dict"
        THEN IF {"name", "super", "doc", "members"} \subseteq DOMAIN type_info.d
             THEN [self EXCEPT !.name = type_info.d.name,
                               !.super = type_info.d.super,
                               !.doc = type_info.d.doc,
                               !.members = type_info.d.members]
             ELSE KeyError
        ELSE IF isclass(type_info) /\ type_info.kind = "EnumClass"
        THEN [self EXCEPT !.name = type_info.name,
                          !.super = "Enum",
                          !.doc = DocOrEmpty(type_info.doc),
                          !.members = self.members \o EnumMembers(type_info)]
        ELSE IF type_info.kind = "EnumDoc"
        THEN [self EXCEPT !.name = type_info.name,
                          !.super = type_info.super,
                          !.doc = type_info.doc,
                          !.members = type_info.members]
        ELSE self

\* EnumDoc.to_dictionary
EnumDoc_to_dictionary(self) ==
    [kind |-> "dict",
     d |-> [name |-> self.name, super |-> self.super, doc |-> self.doc,
            members |-> self.members]]

RECURSIVE AnnotatedItems(_, _)
AnnotatedItems(items, annotations) ==
    IF annotations = <<>> THEN items
    ELSE LET a == Head(annotations)
         IN  AnnotatedItems(DictSet(items, a.key,
                                    IF isclass(a.value) THEN a.value.name
                                    ELSE unic(a.value)),
                            Tail(annotations))

\* TypedDictDoc.__init__(type_info, name=, super=, doc=, items=,
\*                       required_keys=, optional_keys=)
TypedDictDoc(type_info, kw) ==
    LET self == [kind |-> "TypedDictDoc", name |-> kw.name, super |-> kw.super,
                 doc |-> kw.doc, items |-> kw.items,
                 required_keys |-> kw.required_keys,
                 optional_keys |-> kw.optional_keys]
    IN  IF type_info.kind = "dict"
        THEN IF {"name", "super", "doc", "items", "required_keys",
                 "optional_keys"} \subseteq DOMAIN type_info.d
             THEN [self EXCEPT !.name = type_info.d.name,
                               !.super = type_info.d.super,
                               !.doc = type_info.d.doc,
                               !.items = type_info.d.items,
                               !.required_keys = type_info.d.required_keys,
                               !.optional_keys = type_info.d.optional_keys]
             ELSE KeyError
        ELSE IF type_info.kind = "TypedDictClass"
        THEN [self EXCEPT !.name = type_info.name,
                          !.super = "TypedDict",
                          !.doc = DocOrEmpty(type_info.doc),
                          !.items = AnnotatedItems(self.items, type_info.annotations),
                          !.required_keys = type_info.required_keys,
                          !.optional_keys = type_info.optional_keys]
        ELSE IF type_info.kind = "TypedDictDoc"
        THEN [self EXCEPT !.name = type_info.name,
                          !.super = type_info.super,
                          !.doc = type_info.doc,
                          !.items = type_info.items,
                          !.required_keys = type_info.required_keys,
                          !.optional_keys = type_info.optional_keys]
        ELSE self

\* a to_dictionary that writes the two key lists under each other's name
TypedDictDoc_to_dictionary_swapped(self) ==
    [kind |-> "dict",
     d |-> [name |-> self.name, super |-> self.super, doc |-> self.doc,
            items |-> self.items, required_keys |-> self.optional_keys,
            optional_keys |-> self.required_keys]]

\* TypedDictDoc.to_dictionary
TypedDictDoc_to_dictionary(self) ==
    [kind |-> "dict",
     d |-> [name |-> self.name, super |-> self.super, doc |-> self.doc,
            items |-> self.items, required_keys |-> self.required_keys,
            optional_keys |-> self.optional_keys]]

\* arg_type.get('super', None) of a dictionary
DictSuper(arg_type) ==
    IF "super" \in DOMAIN arg_type.d THEN arg_type.d.super ELSE "None"

\* LibraryDoc._is_TypedDictType
_is_TypedDictType(arg_type) ==
    \/ isclass(arg_type) /\ arg_type.kind = "TypedDictClass"
    \/ arg_type.kind = "dict" /\ DictSuper(arg_type) = "TypedDict"

\* LibraryDoc._is_EnumType
_is_EnumType(arg_type) ==
    \/ isclass(arg_type) /\ arg_type.kind = "EnumClass"
    \/ arg_type.kind = "dict" /\ DictSuper(arg_type) = "Enum"

\* LibraryDoc._get_type_doc: falls off the end (None) for any other type
_get_type_doc(arg_type) ==
    IF arg_type.kind \in {"EnumDoc", "TypedDictDoc"} THEN arg_type
    ELSE IF _is_TypedDictType(arg_type) THEN TypedDictDoc(arg_type, NoKwargs)
    ELSE IF _is_EnumType(arg_type) THEN EnumDoc(arg_type, NoKwargs)
    ELSE None

----------------------------------------------------------------------------
(* The keyword objects.  Names are sequences of code points, so that      *)
(* lower() and the string order are computed and not assumed.            *)

KwIds == {1, 2, 3}

\* "B", "a", "Ab"
KwName(k) == IF k = 1 THEN <<66>> ELSE IF k = 2 THEN <<97>> ELSE <<65, 98>>

\* an argument: arg.type (empty when the argument has no type) and
\* arg.type_as_repr_list
NoTypeArg == [type |-> <<>>, type_as_repr_list |-> <<>>]

KwArgs(k) ==
    IF k = 1
    THEN <<[type |-> <<EnumColor>>, type_as_repr_list |-> <<"Color">>],
           NoTypeArg>>
    ELSE IF k = 2
    THEN <<[type |-> <<EnumColor2, PlainInt>>,
            type_as_repr_list |-> <<"Color", "int">>],
           [type |-> <<AbcClass>>, type_as_repr_list |-> <<"Abc">>]>>
    ELSE <<[type |-> <<EnumColor, TypedDictRec, StrType>>,
            type_as_repr_list |-> <<"Shade", "Rec", "str">>],
           [type |-> <<EnumColor>>, type_as_repr_list |-> <<"Color">>]>>

\* a short doc: the text it was taken from, and whether that text went
\* through HtmlToText first
ShortDoc(d, plain) == [text |-> d.text, conv |-> d.conv, plain |-> plain]

NoShortDoc == ShortDoc(Doc(""), FALSE)

\* KeywordDoc.__init__: the shortdoc and doc arguments of each object
KwInitShortdoc(k) == IF k = 3 THEN ShortDoc(Doc("given"), FALSE) ELSE NoShortDoc

KwInitDoc(k) == IF k = 1 THEN Doc("") ELSE Doc("a")

----------------------------------------------------------------------------
(* Collaborators outside this file *)

\* DocFormatter(keywords, doc, doc_format).html(doc): the result is a
\* function of the text and of the format the formatter was built for
Html(formatter, d) == [d EXCEPT !.conv = Append(@, formatter)]

\* ' '.join(getshortdoc(doc).splitlines()), after
\* HtmlToText().get_shortdoc_from_html(doc) when plain is TRUE; an empty doc
\* has an empty short doc
GetShortdoc(d, plain) == IF d.text = "" THEN NoShortDoc ELSE ShortDoc(d, plain)

\* str.lower on code points
Lower(s) == [i \in 1..Len(s) |-> IF s[i] \in 65..90 THEN s[i] + 32 ELSE s[i]]

\* a < b for strings
RECURSIVE StrLt(_, _)
StrLt(a, b) ==
    IF b = <<>> THEN FALSE
    ELSE IF a = <<>> THEN TRUE
    ELSE IF Head(a) # Head(b) THEN Head(a) < Head(b)
    ELSE StrLt(Tail(a), Tail(b))

----------------------------------------------------------------------------
(* KeywordDoc *)

\* a sort key that keeps the case of the name
_sort_key_cased(k) == KwName(k)

\* KeywordDoc._sort_key
_sort_key(k) == Lower(KwName(k))

\* Sortable.__lt__
SortableLt(a, b) == StrLt(_sort_key(a), _sort_key(b))

\* sorted(kws): stable, by __lt__
RECURSIVE sorted(_)
Insert(s, x) ==
    LET after == {i \in 1..Len(s) : SortableLt(x, s[i])}
        p == IF after = {} THEN Len(s) + 1
             ELSE CHOOSE i \in after : \A j \in after : i <= j
    IN  SubSeq(s, 1, p - 1) \o <<x>> \o SubSeq(s, p, Len(s))
sorted(kws) ==
    IF kws = <<>> THEN <<>>
    ELSE Insert(sorted(SubSeq(kws, 1, Len(kws) - 1)), kws[Len(kws)])

\* KeywordDoc._get_shortdoc
_get_shortdoc(doc, parent, fmt) ==
    GetShortdoc(doc, parent # "None" /\ fmt = "HTML")

\* a shortdoc property that derives the value on every read
shortdoc_fresh(stored, doc, parent, fmt) == _get_shortdoc(doc, parent, fmt)

\* KeywordDoc.shortdoc (the property)
shortdoc(stored, doc, parent, fmt) ==
    IF Truthy(stored) THEN stored ELSE _get_shortdoc(doc, parent, fmt)

\* KeywordDoc.generate_shortdoc: the new _shortdoc
generate_shortdoc(stored, doc, parent, fmt) ==
    IF ~Truthy(stored) THEN _get_shortdoc(doc, parent, fmt) ELSE stored

----------------------------------------------------------------------------
(* LibraryDoc *)

\* zip(arg.type_as_repr_list, arg.type)
Zip(arg) ==
    LET n == IF Len(arg.type) < Len(arg.type_as_repr_list)
             THEN Len(arg.type) ELSE Len(arg.type_as_repr_list)
    IN  [i \in 1..n |-> [type_repr |-> arg.type_as_repr_list[i],
                         type |-> arg.type[i]]]

\* a guard that does not look the display name up in _data_types
Registers_again(dt, type_repr, type) ==
    /\ isclass(type)
    /\ ~type_is_type(type)

\* a guard that takes the classes whose metaclass is type
Registers_plain(dt, type_repr, type) ==
    /\ type_repr \notin Keys(dt)
    /\ isclass(type)
    /\ type_is_type(type)

\* the test guarding registration in _add_types_from_keyword
Registers(dt, type_repr, type) ==
    /\ type_repr \notin Keys(dt)
    /\ isclass(type)
    /\ ~type_is_type(type)

RECURSIVE AddTypes(_, _)
AddTypes(dt, pairs) ==
    IF pairs = <<>> THEN dt
    ELSE LET p == Head(pairs)
         IN  AddTypes(IF Registers(dt, p.type_repr, p.type)
                      THEN DictSet(dt, p.type_repr, _get_type_doc(p.type))
                      ELSE dt,
                      Tail(pairs))

\* LibraryDoc._add_types_from_keyword
RECURSIVE AddTypesFromArgs(_, _)
AddTypesFromArgs(dt, args) ==
    IF args = <<>> THEN dt
    ELSE AddTypesFromArgs(IF Head(args).type # <<>>
                          THEN AddTypes(dt, Zip(Head(args)))
                          ELSE dt,
                          Tail(args))
_add_types_from_keyword(dt, k) == AddTypesFromArgs(dt, KwArgs(k))

\* the _data_types left by the loop of _sort_keywords
RECURSIVE AddTypesFromKeywords(_, _)
AddTypesFromKeywords(dt, kws) ==
    IF kws = <<>> THEN dt
    ELSE AddTypesFromKeywords(_add_types_from_keyword(dt, Head(kws)), Tail(kws))

InSeq(s, x) == \E i \in 1..Len(s) : s[i] = x

----------------------------------------------------------------------------
(* Inputs *)

KwLists == ListsUpTo(KwIds, MaxListLen)

EnumDict == [kind |-> "dict",
             d |-> [name |-> "Color", super |-> "Enum", doc |-> Doc("a"),
                    members |-> <<[name |-> "RED", value |-> "1"]>>]]

TypedDictDict == [kind |-> "dict",
                  d |-> [name |-> "Rec", super |-> "TypedDict", doc |-> Doc(""),
                         items |-> <<[key |-> "x", val |-> "int"]>>,
                         required_keys |-> <<"x">>, optional_keys |-> <<>>]]

\* a dictionary that is neither form
OtherDict == [kind |-> "dict", d |-> [name |-> "Other", super |-> "object"]]

\* a dictionary of the Enum form that lacks 'members'
BrokenEnumDict == [kind |-> "dict",
                   d |-> [name |-> "Color", super |-> "Enum", doc |-> Doc("a")]]

TypeRefs == {EnumDoc(EnumColor2, NoKwargs), TypedDictDict, PlainInt}

TypeLists == ListsUpTo(TypeRefs, MaxListLen)

Formats == {"", "HTML"}

NotRead == [read |-> FALSE, val |-> NoShortDoc]

Call(op, arg, ret, err) == [op |-> op, arg |-> arg, ret |-> ret, err |-> err]

----------------------------------------------------------------------------
(* The library aggregate *)

Init ==
    /\ kw_doc = [k \in KwIds |-> KwInitDoc(k)]
    /\ kw_shortdoc = [k \in KwIds |-> KwInitShortdoc(k)]
    /\ kw_parent = [k \in KwIds |-> "None"]
    /\ inits = <<>>
    /\ keywords = <<>>
    /\ data_types = <<>>
    /\ lib_doc = Doc("a")
    /\ doc_format = "ROBOT"
    /\ nconv = 0
    /\ first_read = [k \in KwIds |-> NotRead]
    /\ last = Call("__init__", <<>>, None, "")
    /\ steps = 0
    /\ toc = <<>>
    /\ rt = <<>>

\* LibraryDoc._sort_keywords: the effects of its loop
SortKeywordsEffects(kws) ==
    /\ data_types' = AddTypesFromKeywords(data_types, kws)
    /\ kw_parent' = [k \in KwIds |-> IF InSeq(kws, k) THEN "lib" ELSE kw_parent[k]]
    /\ kw_shortdoc' = [k \in KwIds |->
                         IF InSeq(kws, k)
                         THEN generate_shortdoc(kw_shortdoc[k], kw_doc[k], "lib", doc_format)
                         ELSE kw_shortdoc[k]]

\* lib.inits = kws
SetInits(kws) ==
    /\ SortKeywordsEffects(kws)
    /\ inits' = sorted(kws)
    /\ last' = Call("inits", kws, None, "")
    /\ UNCHANGED <<kw_doc, keywords, lib_doc, doc_format, nconv, first_read, toc, rt>>

\* lib.keywords = kws
SetKeywords(kws) ==
    /\ SortKeywordsEffects(kws)
    /\ keywords' = sorted(kws)
    /\ last' = Call("keywords", kws, None, "")
    /\ UNCHANGED <<kw_doc, inits, lib_doc, doc_format, nconv, first_read, toc, rt>>

\* lib.data_types = types
SetDataTypes(types) ==
    LET docs == [i \in 1..Len(types) |-> _get_type_doc(types[i])]
        raised == {i \in 1..Len(docs) : Raised(docs[i])}
        nones == {i \in 1..Len(docs) : docs[i].kind = "None"}
    IN  /\ IF raised # {}
           THEN /\ last' = Call("data_types", types, None, "KeyError")
                /\ UNCHANGED data_types
           ELSE IF nones # {}
           THEN /\ last' = Call("data_types", types, None, "AttributeError")
                /\ UNCHANGED data_types
           ELSE /\ last' = Call("data_types", types, None, "")
                /\ data_types' = DictOf([i \in 1..Len(docs) |->
                                          [key |-> docs[i].name, val |-> docs[i]]])
        /\ UNCHANGED <<kw_doc, kw_shortdoc, kw_parent, inits, keywords, lib_doc,
                       doc_format, nconv, first_read, toc, rt>>

\* lib.doc_format = format
SetDocFormat(format) ==
    /\ doc_format' = IF format = "" THEN "ROBOT" ELSE format
    /\ last' = Call("doc_format", format, None, "")
    /\ UNCHANGED <<kw_doc, kw_shortdoc, kw_parent, inits, keywords, data_types,
                   lib_doc, nconv, first_read, toc, rt>>

\* kw.doc = text
SetKwDoc(k, text) ==
    /\ kw_doc' = [kw_doc EXCEPT ![k] = Doc(text)]
    /\ last' = Call("kw.doc", k, None, "")
    /\ UNCHANGED <<kw_shortdoc, kw_parent, inits, keywords, data_types, lib_doc,
                   doc_format, nconv, first_read, toc, rt>>

\* kw.shortdoc (a read)
ReadShortdoc(k) ==
    LET value == shortdoc(kw_shortdoc[k], kw_doc[k], kw_parent[k], doc_format)
    IN  /\ last' = Call("kw.shortdoc", k, value, "")
        /\ first_read' = IF first_read[k].read THEN first_read
                         ELSE [first_read EXCEPT ![k] = [read |-> TRUE, val |-> value]]
        /\ UNCHANGED <<kw_doc, kw_shortdoc, kw_parent, inits, keywords, data_types,
                       lib_doc, doc_format, nconv, toc, rt>>

\* a formatter that is built for the ROBOT format whatever doc_format is
FormatterOf_robot(fmt) == "ROBOT"

\* the format DocFormatter is built for in convert_docs_to_html
FormatterOf(fmt) == fmt

RECURSIVE HtmlTimes(_, _, _)
HtmlTimes(formatter, d, n) ==
    IF n = 0 THEN d ELSE HtmlTimes(formatter, Html(formatter, d), n - 1)

\* the loop over self._data_types.values(): the entries ahead of the first
\* None are converted, then type_doc.doc raises on the None
FirstNone(dt) ==
    LET nones == {i \in 1..Len(dt) : dt[i].val.kind = "None"}
    IN  IF nones = {} THEN Len(dt) + 1
        ELSE CHOOSE i \in nones : \A j \in nones : i <= j

ConvertTypes(formatter, dt) ==
    [i \in 1..Len(dt) |->
        IF i < FirstNone(dt)
        THEN [dt[i] EXCEPT !.val.doc = Html(formatter, @)]
        ELSE dt[i]]

\* lib.convert_docs_to_html(); the raw docs of this specification hold no
\* %TOC% marker, so self.doc is self._doc
ConvertDocsToHtml ==
    LET formatter == FormatterOf(doc_format)
    IN  /\ nconv < MaxConvert
        /\ nconv' = nconv + 1
        /\ lib_doc' = Html(formatter, lib_doc)
        /\ doc_format' = "HTML"
        /\ kw_doc' = [k \in KwIds |->
                        HtmlTimes(formatter, kw_doc[k], Count(inits, k) + Count(keywords, k))]
        /\ data_types' = ConvertTypes(formatter, data_types)
        /\ last' = Call("convert_docs_to_html", formatter, None,
                        IF FirstNone(data_types) <= Len(data_types)
                        THEN "AttributeError" ELSE "")
        /\ UNCHANGED <<kw_shortdoc, kw_parent, inits, keywords, first_read, toc, rt>>

\* one more call, within the bound on the length of a behaviour
Step ==
    /\ steps < MaxSteps
    /\ steps' = steps + 1

NextKw ==
    \/ \E kws \in KwLists : Step /\ SetInits(kws)
    \/ \E kws \in KwLists : Step /\ SetKeywords(kws)
    \/ \E f \in Formats : Step /\ SetDocFormat(f)
    \/ \E k \in KwIds, t \in DocTexts : Step /\ SetKwDoc(k, t)
    \/ \E k \in KwIds : Step /\ ReadShortdoc(k)
    \/ Step /\ ConvertDocsToHtml

Next ==
    \/ NextKw
    \/ \E types \in TypeLists : Step /\ SetDataTypes(types)

Spec == Init /\ [][Next]_vars

SpecKw == Init /\ [][NextKw]_vars

----------------------------------------------------------------------------
(* Properties of the library aggregate *)

Held == {k \in KwIds : InSeq(inits, k) \/ InSeq(keywords, k)}

SortedByLowerName(s) ==
    \A i \in 1..(Len(s) - 1) :
        ~StrLt(Lower(KwName(s[i + 1])), Lower(KwName(s[i])))

SameKeywords(a, b) == \A k \in KwIds : Count(a, k) = Count(b, k)

\* C1: the list stored by an assignment to inits or keywords is sorted by
\* lower-cased keyword name, holds exactly the assigned keywords, and every
\* keyword in it has the library as its parent.
C1_SortedAssignment ==
    /\ SortedByLowerName(inits)
    /\ SortedByLowerName(keywords)
    /\ \A k \in Held : kw_parent[k] = "lib"
    /\ last.op = "inits" => SameKeywords(inits, last.arg)
    /\ last.op = "keywords" => SameKeywords(keywords, last.arg)

\* "B", "a" was assigned and is stored as "a", "B"
C1_Witness ==
    /\ last.op = "keywords"
    /\ last.arg = <<1, 2>>
    /\ keywords = <<2, 1>>
    /\ kw_parent[1] = "lib" /\ kw_parent[2] = "lib"

\* every (display name, type) pair of the arguments of a list of keywords,
\* in the order the assignment meets them
RECURSIVE EncountersIn(_)
EncountersIn(kws) ==
    IF kws = <<>> THEN <<>>
    ELSE Concat([i \in 1..Len(KwArgs(Head(kws))) |-> Zip(KwArgs(Head(kws))[i])])
         \o EncountersIn(Tail(kws))

EncounterTable == [kws \in KwLists |-> EncountersIn(kws)]

Encounters(kws) == EncounterTable[kws]

IsEnumOrRecordClass(t) == t.kind \in {"EnumClass", "TypedDictClass"}

HasMetaclass(t) == t.kind \in {"EnumClass", "TypedDictClass", "MetaClass"}

EntriesFor(dt, name) == {i \in 1..Len(dt) : dt[i].key = name}

\* j is the first pair of enc that has the display name and a class that
\* registers
IsFirstEncounter(enc, j, name) ==
    /\ enc[j].type_repr = name
    /\ HasMetaclass(enc[j].type)
    /\ \A h \in 1..(j - 1) : ~(enc[h].type_repr = name /\ HasMetaclass(enc[h].type))

\* C2: over assignments to inits and keywords, registration is deduplicated
\* by display name and the first encounter wins: an entry already in
\* data_types is neither replaced nor rebuilt, a name gets exactly one entry,
\* a new entry is the descriptor built from the first encounter of its name,
\* and every display name an enumeration or record class is met under has
\* an entry.
C2_FirstSeenWins ==
    [][ last'.op \in {"inits", "keywords"} =>
          LET enc == Encounters(last'.arg)
          IN  /\ Len(data_types') >= Len(data_types)
              /\ \A i \in 1..Len(data_types) : data_types'[i] = data_types[i]
              /\ \A n \in Keys(data_types') :
                    Cardinality(EntriesFor(data_types', n)) = 1
              /\ \A i \in (Len(data_types) + 1)..Len(data_types') :
                    \E j \in 1..Len(enc) :
                        /\ IsFirstEncounter(enc, j, data_types'[i].key)
                        /\ data_types'[i].val = _get_type_doc(enc[j].type)
              /\ \A j \in 1..Len(enc) :
                    IsEnumOrRecordClass(enc[j].type) =>
                        enc[j].type_repr \in Keys(data_types')
      ]_vars

\* "Color" was registered from the first enumeration, then met again with
\* another class of that name; the same class is also kept under "Shade"
C2_Witness ==
    /\ last.op = "keywords"
    /\ last.arg = <<2, 3>>
    /\ InSeq(inits, 1)
    /\ Cardinality(EntriesFor(data_types, "Color")) = 1
    /\ DictGet(data_types, "Color") = EnumDoc(EnumColor, NoKwargs)
    /\ "Shade" \in Keys(data_types)
    /\ DictGet(data_types, "Shade") = [EnumDoc(EnumColor, NoKwargs) EXCEPT !.name = "Color"]

\* val is the descriptor of class t, whatever was done to its doc
Describes(val, t) ==
    /\ val.kind \in {"EnumDoc", "TypedDictDoc"}
    /\ val = [_get_type_doc(t) EXCEPT !.doc = val.doc]

\* C3 as stated: in every state reached by assignments to inits, keywords
\* and data_types, every enumeration or record class referenced by an
\* argument of a held keyword appears exactly once in data_types, keyed by
\* its display name.
C3_Original ==
    \A k \in Held :
        \A j \in 1..Len(Encounters(<<k>>)) :
            LET p == Encounters(<<k>>)[j]
            IN  IsEnumOrRecordClass(p.type) =>
                    /\ Cardinality(EntriesFor(data_types, p.type_repr)) = 1
                    /\ Describes(DictGet(data_types, p.type_repr), p.type)

\* C3 amended: when nothing is assigned to data_types, the display name of
\* every enumeration or record class referenced by an argument of a held
\* keyword is a key of data_types, with exactly one entry.
C3_Amended ==
    \A k \in Held :
        \A j \in 1..Len(Encounters(<<k>>)) :
            LET p == Encounters(<<k>>)[j]
            IN  IsEnumOrRecordClass(p.type) =>
                    Cardinality(EntriesFor(data_types, p.type_repr)) = 1

\* two held keywords reference different enumerations as "Color"; a record
\* class is held too
C3_Witness ==
    /\ {1, 2, 3} \subseteq Held
    /\ Cardinality(EntriesFor(data_types, "Color")) = 1
    /\ "Rec" \in Keys(data_types)
    /\ ~Describes(DictGet(data_types, "Color"), EnumColor2)

\* C4 as stated: a type reference that is neither an enumeration nor a
\* record type is dropped silently: no call raises on it and data_types
\* maps names to EnumDoc or TypedDictDoc descriptors only.
C4_Original ==
    /\ \A i \in 1..Len(data_types) :
          data_types[i].val.kind \in {"EnumDoc", "TypedDictDoc"}
    /\ last.op \in {"inits", "keywords", "data_types"} => last.err = ""

\* the value a read of k.shortdoc returns in the current state
ShortdocOf(k) == shortdoc(kw_shortdoc[k], kw_doc[k], kw_parent[k], doc_format)

\* C5 as stated: once a keyword has been assigned to the library, no change
\* of its doc (kw.doc = ... or convert_docs_to_html) changes what reading
\* its shortdoc returns.
C5_Original ==
    [][ last'.op \in {"kw.doc", "convert_docs_to_html"} =>
          \A k \in KwIds : kw_parent[k] = "lib" => ShortdocOf(k)' = ShortdocOf(k)
      ]_vars

C10_Original ==
    [][ (last'.op = "convert_docs_to_html" /\ nconv >= 1) =>
          /\ last'.arg = "ROBOT"
          /\ doc_format' = "HTML"
      ]_vars

Appended(old, new, f, n) ==
    /\ new.text = old.text
    /\ Len(new.conv) = Len(old.conv) + n
    /\ SubSeq(new.conv, 1, Len(old.conv)) = old.conv
    /\ \A i \in (Len(old.conv) + 1)..Len(new.conv) : new.conv[i] = f

\* C10 amended: every call of convert_docs_to_html, a second one included,
\* converts the library doc, the doc of every init and keyword and the doc
\* of the type descriptors (those ahead of a None entry) with a formatter
\* built for the doc_format current at the call, and leaves doc_format
\* HTML; a call that directly follows another one therefore converts with
\* an HTML formatter.
C10_Amended ==
    [][ last'.op = "convert_docs_to_html" =>
          /\ Appended(lib_doc, lib_doc', doc_format, 1)
          /\ \A k \in KwIds :
                Appended(kw_doc[k], kw_doc'[k], doc_format,
                         Count(inits, k) + Count(keywords, k))
          /\ Len(data_types') = Len(data_types)
          /\ \A i \in 1..Len(data_types) :
                (\A j \in 1..i : data_types[j].val.kind # "None") =>
                    Appended(data_types[i].val.doc, data_types'[i].val.doc, doc_format, 1)
          /\ doc_format' = "HTML"
          /\ last.op = "convert_docs_to_html" => doc_format = "HTML"
      ]_vars

\* converted twice in a row with a keyword and a type descriptor held: the
\* second formatter was an HTML one
C10_Witness ==
    /\ nconv = 2
    /\ last.op = "convert_docs_to_html"
    /\ lib_doc.conv = <<"ROBOT", "HTML">>
    /\ \E k \in Held : kw_doc[k].conv = <<"ROBOT", "HTML">>
    /\ \E i \in 1..Len(data_types) :
          /\ data_types[i].val.kind = "EnumDoc"
          /\ data_types[i].val.doc.conv = <<"ROBOT", "HTML">>

----------------------------------------------------------------------------
(* LibraryDoc.doc and the table of contents.  A text is a sequence of      *)
(* characters; the three fixed TOC entries are one symbol each.            *)

Min(S) == CHOOSE x \in S : \A y \in S : x <= y
Max(S) == CHOOSE x \in S : \A y \in S : x >= y

NL == "\n"

\* '%TOC%'
Marker == <<"%", "T", "O", "C", "%">>

\* sub in text
Contains(text, sub) ==
    \E i \in 1..(Len(text) - Len(sub) + 1) :
        SubSeq(text, i, i + Len(sub) - 1) = sub

\* text.splitlines()
RECURSIVE splitlines(_)
splitlines(text) ==
    IF text = <<>> THEN <<>>
    ELSE LET nls == {i \in 1..Len(text) : text[i] = NL}
         IN  IF nls = {} THEN <<text>>
             ELSE <<SubSeq(text, 1, Min(nls) - 1)>>
                  \o splitlines(SubSeq(text, Min(nls) + 1, Len(text)))

\* sep.join(parts)
RECURSIVE join(_, _)
join(sep, parts) ==
    IF parts = <<>> THEN <<>>
    ELSE IF Len(parts) = 1 THEN parts[1]
    ELSE parts[1] \o sep \o join(sep, Tail(parts))

\* \s
IsSpace(c) == c \in {" ", NL}

\* text.strip()
strip(text) ==
    LET solid == {i \in 1..Len(text) : ~IsSpace(text[i])}
    IN  IF solid = {} THEN <<>> ELSE SubSeq(text, Min(solid), Max(solid))

\* the first position from i on that holds no white space (Len + 1 if none)
SkipSpace(t, i) == Min({j \in i..(Len(t) + 1) : j = Len(t) + 1 \/ ~IsSpace(t[j])})

\* \s+=\s*$ matched from position b: the positions the match can end at
\* (exclusive); $ holds at the end of the text and ahead of a newline
TailEnds(t, b) ==
    IF ~(b <= Len(t) /\ IsSpace(t[b])) THEN {}
    ELSE LET eq == SkipSpace(t, b)
         IN  IF ~(eq <= Len(t) /\ t[eq] = "=") THEN {}
             ELSE {e \in (eq + 1)..SkipSpace(t, eq + 1) : e = Len(t) + 1 \/ t[e] = NL}

\* (.+?) started at a: the positions the group can end at (exclusive)
GroupEnds(t, a) ==
    {b \in (a + 1)..(Len(t) + 1) :
        /\ \A h \in a..(b - 1) : t[h] # NL
        /\ TailEnds(t, b) # {}}

\* \s*=\s+ matched from position s: the positions the group can start at
GroupStarts(t, s) ==
    LET eq == SkipSpace(t, s)
    IN  IF ~(eq <= Len(t) /\ t[eq] = "=") THEN {}
        ELSE {a \in (eq + 2)..SkipSpace(t, eq + 1) : GroupEnds(t, a) # {}}

\* the match of ^\s*=\s+(.+?)\s+=\s*$ at s: \s+ is greedy, the group lazy,
\* the last \s* greedy
MatchAt(t, s) ==
    LET a == Max(GroupStarts(t, s))
        b == Min(GroupEnds(t, a))
    IN  [group |-> SubSeq(t, a, b - 1), end |-> Max(TailEnds(t, b))]

\* re.findall(r'^\s*=\s+(.+?)\s+=\s*$', t, flags=re.MULTILINE), from pos on
RECURSIVE findall(_, _)
findall(t, pos) ==
    LET at == {s \in pos..Len(t) :
                  /\ s = 1 \/ t[s - 1] = NL
                  /\ GroupStarts(t, s) # {}}
    IN  IF at = {} THEN <<>>
        ELSE <<MatchAt(t, Min(at)).group>> \o findall(t, MatchAt(t, Min(at)).end)

\* the backquote character
Backquote == "backquote"

\* the list item of an entry: dash, space, and the entry between backquotes
TocItem(entry) == <<"-", " ", Backquote>> \o entry \o <<Backquote>>

\* LibraryDoc._create_toc
_create_toc(doc, lib_inits) ==
    LET entries == findall(doc, 1)
                   \o (IF lib_inits # <<>> THEN <<<<"Importing">>>> ELSE <<>>)
                   \o <<<<"Keywords">>>>
                   \o <<<<"Data types">>>>
    IN  join(<<NL>>, [i \in 1..Len(entries) |-> TocItem(entries[i])])

\* LibraryDoc._add_toc
_add_toc(doc, lib_inits) ==
    LET lines == splitlines(doc)
    IN  join(<<NL>>, [i \in 1..Len(lines) |->
                        IF strip(lines[i]) # Marker THEN lines[i]
                        ELSE _create_toc(doc, lib_inits)])

\* a doc property that expands the marker whatever the format is
doc_anyformat(format, raw, lib_inits) ==
    IF Contains(raw, Marker)
    THEN _add_toc(raw, lib_inits)
    ELSE raw

\* LibraryDoc.doc (the property)
doc(format, raw, lib_inits) ==
    IF format = "ROBOT" /\ Contains(raw, Marker)
    THEN _add_toc(raw, lib_inits)
    ELSE raw

TocLines ==
    {<<"=", " ", "x", " ", "=">>,
     <<"=", " ", "y", " ", "=">>,
     Marker,
     <<" ">> \o Marker \o <<" ">>,
     <<"x", " ">> \o Marker,
     <<>>,
     <<"=">>,
     <<"x", " ", "=">>}

\* the raw docs: up to MaxLines lines, with or without a final newline
RawDocs ==
    LET texts == {join(<<NL>>, ls) : ls \in SeqsUpTo(TocLines, MaxLines)}
    IN  texts \cup {t \o <<NL>> : t \in texts}

TocFormats == {"ROBOT", "HTML", "TEXT"}

InitToc ==
    /\ kw_doc = [k \in KwIds |-> KwInitDoc(k)]
    /\ kw_shortdoc = [k \in KwIds |-> KwInitShortdoc(k)]
    /\ kw_parent = [k \in KwIds |-> "None"]
    /\ inits = <<>>
    /\ keywords = <<>>
    /\ data_types = <<>>
    /\ lib_doc = Doc("a")
    /\ doc_format = "ROBOT"
    /\ nconv = 0
    /\ first_read = [k \in KwIds |-> NotRead]
    /\ last = Call("__init__", <<>>, None, "")
    /\ steps = 0
    /\ rt = <<>>
    /\ toc \in {[pc |-> "built", raw |-> r, doc_format |-> f, inits |-> i,
                 result |-> <<>>] :
                    r \in RawDocs, f \in TocFormats, i \in {<<>>, <<1>>}}

\* lib.doc (a read)
ReadDoc ==
    /\ toc.pc = "built"
    /\ toc' = [toc EXCEPT !.pc = "read",
                          !.result = doc(toc.doc_format, toc.raw, toc.inits)]
    /\ UNCHANGED <<libvars, rt>>

NextToc == ReadDoc

SpecToc == InitToc /\ [][NextToc]_vars

\* the lines of a text that are the marker up to surrounding white space
MarkerLines(text) ==
    {i \in 1..Len(splitlines(text)) : strip(splitlines(text)[i]) = Marker}

\* the section headings of a text: the heading pattern applied to each of
\* its lines, in order
HeadingsByLine(text) ==
    Concat([i \in 1..Len(splitlines(text)) |-> findall(splitlines(text)[i], 1)])

ExpectedToc(text, lib_inits) ==
    LET entries == HeadingsByLine(text)
                   \o (IF lib_inits # <<>> THEN <<<<"Importing">>>> ELSE <<>>)
                   \o << <<"Keywords">>, <<"Data types">> >>
    IN  join(<<NL>>, [i \in 1..Len(entries) |-> <<"-", " ", Backquote>> \o entries[i] \o <<Backquote>>])

\* C8 as stated: with doc_format ROBOT and a marker line in the raw doc,
\* doc is the raw doc with every marker line replaced by the same block and
\* every other line kept, in order; the block lists the section headings of
\* the raw doc in order of appearance, then Importing if there are inits,
\* then Keywords, then Data types.
C8_Original ==
    (toc.pc = "read" /\ toc.doc_format = "ROBOT" /\ MarkerLines(toc.raw) # {}) =>
        toc.result =
            join(<<NL>>, [i \in 1..Len(splitlines(toc.raw)) |->
                            IF i \in MarkerLines(toc.raw)
                            THEN ExpectedToc(toc.raw, toc.inits)
                            ELSE splitlines(toc.raw)[i]])

\* C9 as stated: when doc_format is not ROBOT or no line of the raw doc is
\* the marker, doc is the raw doc, character for character.
C9_Original ==
    (toc.pc = "read" /\ (toc.doc_format # "ROBOT" \/ MarkerLines(toc.raw) = {})) =>
        toc.result = toc.raw

\* C9 amended: when doc_format is not ROBOT or %TOC% does not occur in the
\* raw doc, doc is the raw doc, character for character; when doc_format is
\* ROBOT and %TOC% occurs inside longer lines only, doc is the raw doc
\* without the newline at its very end, if it has one.
C9_Amended ==
    (toc.pc = "read" /\ (toc.doc_format # "ROBOT" \/ MarkerLines(toc.raw) = {})) =>
        /\ (toc.doc_format # "ROBOT" \/ ~Contains(toc.raw, Marker)) =>
                toc.result = toc.raw
        /\ toc.result = toc.raw \/ toc.raw = toc.result \o <<NL>>

\* %TOC% occurs inside a longer line only, of a ROBOT doc that ends with a
\* newline: the lines are kept and the final newline is not
C9_Witness ==
    /\ toc.pc = "read"
    /\ toc.doc_format = "ROBOT"
    /\ Contains(toc.raw, Marker)
    /\ MarkerLines(toc.raw) = {}
    /\ toc.raw = toc.result \o <<NL>>

----------------------------------------------------------------------------
(* The type descriptors on their own: construction, to_dictionary and the   *)
(* two ways back                                                            *)

SomeKwargs == [name |-> "Kw", super |-> "Enum", doc |-> Doc("b"),
               members |-> <<[name |-> "M", value |-> "9"]>>,
               items |-> <<[key |-> "k", val |-> "str"]>>,
               required_keys |-> <<"k">>, optional_keys |-> <<>>]

\* what a constructor is given as type_info
TypeInfos == {None, EnumColor, EnumColor2, TypedDictRec, PlainInt, EnumDict,
              TypedDictDict, OtherDict, BrokenEnumDict,
              EnumDoc(EnumColor, NoKwargs), TypedDictDoc(TypedDictRec, NoKwargs)}

\* cls(type_info, **kw)
Construct(cls, type_info, kw) ==
    IF cls = "EnumDoc" THEN EnumDoc(type_info, kw) ELSE TypedDictDoc(type_info, kw)

\* d.to_dictionary()
to_dictionary(d) ==
    IF d.kind = "EnumDoc" THEN EnumDoc_to_dictionary(d)
    ELSE TypedDictDoc_to_dictionary(d)

InitRT ==
    /\ kw_doc = [k \in KwIds |-> KwInitDoc(k)]
    /\ kw_shortdoc = [k \in KwIds |-> KwInitShortdoc(k)]
    /\ kw_parent = [k \in KwIds |-> "None"]
    /\ inits = <<>>
    /\ keywords = <<>>
    /\ data_types = <<>>
    /\ lib_doc = Doc("a")
    /\ doc_format = "ROBOT"
    /\ nconv = 0
    /\ first_read = [k \in KwIds |-> NotRead]
    /\ last = Call("__init__", <<>>, None, "")
    /\ steps = 0
    /\ toc = <<>>
    /\ rt \in {[pc |-> "call", cls |-> c, type_info |-> t, kw |-> kw,
                d |-> None, dict |-> None, back |-> None, copy |-> None] :
                  c \in {"EnumDoc", "TypedDictDoc"}, t \in TypeInfos,
                  kw \in {NoKwargs, SomeKwargs}}

\* d = cls(type_info, **kw)
RTConstruct ==
    /\ rt.pc = "call"
    /\ LET d == Construct(rt.cls, rt.type_info, rt.kw)
       IN  rt' = [rt EXCEPT !.pc = IF Raised(d) THEN "raised" ELSE "made", !.d = d]
    /\ UNCHANGED <<libvars, toc>>

\* d.doc = formatter.html(d.doc), as convert_docs_to_html does
RTConvertDoc(formatter) ==
    /\ rt.pc = "made"
    /\ Len(rt.d.doc.conv) < MaxConvert
    /\ rt' = [rt EXCEPT !.d.doc = Html(formatter, @)]
    /\ UNCHANGED <<libvars, toc>>

\* dict = d.to_dictionary()
RTToDictionary ==
    /\ rt.pc = "made"
    /\ rt' = [rt EXCEPT !.pc = "dumped", !.dict = to_dictionary(rt.d)]
    /\ UNCHANGED <<libvars, toc>>

\* back = cls(dict); copy = cls(d)
RTRebuild ==
    /\ rt.pc = "dumped"
    /\ rt' = [rt EXCEPT !.pc = "rebuilt",
                        !.back = Construct(rt.cls, rt.dict, NoKwargs),
                        !.copy = Construct(rt.cls, rt.d, NoKwargs)]
    /\ UNCHANGED <<libvars, toc>>

NextRT ==
    \/ RTConstruct
    \/ \E f \in {"ROBOT", "HTML"} : RTConvertDoc(f)
    \/ RTToDictionary
    \/ RTRebuild

SpecRT == InitRT /\ [][NextRT]_vars

\* C7: a descriptor rebuilt by its class's constructor from its own
\* to_dictionary(), or from the descriptor itself, has the attributes of the
\* descriptor: name, super, doc and members, or name, super, doc, items,
\* required_keys and optional_keys.
C7_RoundTrip ==
    rt.pc = "rebuilt" =>
        /\ rt.back.kind = rt.d.kind /\ rt.copy.kind = rt.d.kind
        /\ \A x \in {rt.back, rt.copy} :
              /\ x.name = rt.d.name
              /\ x.super = rt.d.super
              /\ x.doc = rt.d.doc
              /\ rt.d.kind = "EnumDoc" => x.members = rt.d.members
              /\ rt.d.kind = "TypedDictDoc" =>
                    /\ x.items = rt.d.items
                    /\ x.required_keys = rt.d.required_keys
                    /\ x.optional_keys = rt.d.optional_keys

\* a record descriptor built from a class, its doc converted, was rebuilt
C7_Witness ==
    /\ rt.pc = "rebuilt"
    /\ rt.d.kind = "TypedDictDoc"
    /\ rt.d.name = "Rec"
    /\ rt.d.required_keys = <<"x">> /\ rt.d.optional_keys = <<"y">>
    /\ Len(rt.d.items) = 2
    /\ rt.d.doc.conv # <<>>
    /\ rt.back = rt.d

====
